---- MODULE Spec2Model ----
(***************************************************************************)
(* Model of the Smart To-Do List (task_manager-v5.py): the tasks file, the *)
(* in-memory task list, the validators and the menu operations.            *)
(* Python strings are sequences of one-character strings, so that strip,   *)
(* lower, capitalize and strptime are computed rather than assumed.        *)
(***************************************************************************)
EXTENDS Integers, Sequences, FiniteSets, TLC

VARIABLES file, tasks, now, pc, last, shown

vars == <<file, tasks, now, pc, last, shown>>

(* ------------------------------ bounds --------------------------------- *)

MaxTasks == 2

(* --------------------------- Python values ----------------------------- *)

None == <<"None">>

Truthy(v) == v # <<>> /\ v # None

Uppers == <<"A","B","C","D","E","F","G","H","I","J","K","L","M",
            "N","O","P","Q","R","S","T","U","V","W","X","Y","Z">>

Lowers == <<"a","b","c","d","e","f","g","h","i","j","k","l","m",
            "n","o","p","q","r","s","t","u","v","w","x","y","z">>

Digits == <<"0","1","2","3","4","5","6","7","8","9">>

LowerOf == [c \in {Uppers[i] : i \in 1..26} |-> Lowers[CHOOSE i \in 1..26 : Uppers[i] = c]]

UpperOf == [c \in {Lowers[i] : i \in 1..26} |-> Uppers[CHOOSE i \in 1..26 : Lowers[i] = c]]

lower_char(c) == IF c \in DOMAIN LowerOf THEN LowerOf[c] ELSE c

upper_char(c) == IF c \in DOMAIN UpperOf THEN UpperOf[c] ELSE c

RECURSIVE str_lower(_)
str_lower(s) ==
    IF s = <<>> THEN <<>> ELSE <<lower_char(Head(s))>> \o str_lower(Tail(s))

str_capitalize(s) ==
    IF s = <<>> THEN <<>> ELSE <<upper_char(Head(s))>> \o str_lower(Tail(s))

RECURSIVE lstrip(_)
lstrip(s) ==
    IF s # <<>> /\ Head(s) = " " THEN lstrip(Tail(s)) ELSE s

RECURSIVE rstrip(_)
rstrip(s) ==
    IF s # <<>> /\ s[Len(s)] = " " THEN rstrip(SubSeq(s, 1, Len(s) - 1)) ELSE s

str_strip(s) == rstrip(lstrip(s))

(* ordinal of a character: space, digits, upper case, lower case *)
ord(c) ==
    IF c = " " THEN 32
    ELSE IF c = "-" THEN 45
    ELSE IF \E i \in 1..10 : Digits[i] = c
         THEN 47 + (CHOOSE i \in 1..10 : Digits[i] = c)
    ELSE IF \E i \in 1..26 : Uppers[i] = c
         THEN 64 + (CHOOSE i \in 1..26 : Uppers[i] = c)
    ELSE 96 + (CHOOSE i \in 1..26 : Lowers[i] = c)

RECURSIVE str_less(_, _)
str_less(a, b) ==
    IF b = <<>> THEN FALSE
    ELSE IF a = <<>> THEN TRUE
    ELSE IF ord(Head(a)) # ord(Head(b)) THEN ord(Head(a)) < ord(Head(b))
    ELSE str_less(Tail(a), Tail(b))

(* ----------------------- datetime.strptime "%d-%m-%Y" ------------------ *)

IsDigit(c) == \E i \in 1..10 : Digits[i] = c

DigitVal(c) == (CHOOSE i \in 1..10 : Digits[i] = c) - 1

RECURSIVE ParseInt(_)
ParseInt(s) ==
    IF s = <<>> THEN 0 ELSE 10 * ParseInt(SubSeq(s, 1, Len(s) - 1)) + DigitVal(s[Len(s)])

AllDigits(s) == \A i \in 1..Len(s) : IsDigit(s[i])

(* the positions of "-" in s *)
Dashes(s) == {i \in 1..Len(s) : s[i] = "-"}

IsLeap(y) == (y % 4 = 0 /\ y % 100 # 0) \/ y % 400 = 0

DaysInMonth(m, y) ==
    IF m = 2 THEN (IF IsLeap(y) THEN 29 ELSE 28)
    ELSE IF m \in {4, 6, 9, 11} THEN 30 ELSE 31

(* strptime(s, "%d-%m-%Y"): [ok |-> FALSE] stands for ValueError, otherwise *)
(* the datetime at 00:00:00.000000 of the parsed day, as <<y, m, d, micro>> *)
strptime(s) ==
    LET ds == Dashes(s)
        p1 == CHOOSE i \in ds : \A j \in ds : i <= j
        p2 == CHOOSE i \in ds : \A j \in ds : j <= i
        dd == SubSeq(s, 1, p1 - 1)
        mm == SubSeq(s, p1 + 1, p2 - 1)
        yy == SubSeq(s, p2 + 1, Len(s))
        d  == ParseInt(dd)
        m  == ParseInt(mm)
        y  == ParseInt(yy)
    IN  IF Cardinality(ds) # 2 THEN [ok |-> FALSE, dt |-> <<0, 0, 0, 0>>]
        ELSE IF ~(Len(dd) \in 1..2 /\ Len(mm) \in 1..2 /\ Len(yy) = 4
                  /\ AllDigits(dd) /\ AllDigits(mm) /\ AllDigits(yy))
             THEN [ok |-> FALSE, dt |-> <<0, 0, 0, 0>>]
        ELSE IF ~(m \in 1..12 /\ y >= 1 /\ d >= 1 /\ d <= DaysInMonth(m, y))
             THEN [ok |-> FALSE, dt |-> <<0, 0, 0, 0>>]
        ELSE [ok |-> TRUE, dt |-> <<y, m, d, 0>>]

(* datetime.__lt__ : lexicographic on (year, month, day, time of day) *)
dt_less(a, b) ==
    \E i \in 1..4 : a[i] < b[i] /\ \A j \in 1..(i - 1) : a[j] = b[j]

(* ------------------------------ validators ----------------------------- *)

Low == <<"L","o","w">>

Medium == <<"M","e","d","i","u","m">>

High == <<"H","i","g","h">>

valid_priorities == <<Low, Medium, High>>

(* a validator that only asks for a non-empty priority *)
validate_priority_non_empty(priority) == priority # <<>>

validate_priority(priority) ==
    \E i \in 1..Len(valid_priorities) : valid_priorities[i] = priority

(* nw is datetime.today(): <<year, month, day, time of day>>, the time of   *)
(* day being 0 at 00:00:00.000000 exactly and 1 at any later time          *)
validate_due_date(due_date, nw) ==
    LET p == strptime(due_date)
    IN  IF ~p.ok THEN FALSE
        ELSE IF dt_less(p.dt, nw) THEN FALSE
        ELSE TRUE

(* ------------------------------ task store ----------------------------- *)

(* a task is the dict built by add_task *)
Task(t, c, p, d, done, k) ==
    [title |-> t, category |-> c, priority |-> p, due_date |-> d,
     completed |-> done, comments |-> k]

JStr(s) == <<"str", s>>

JTrue == <<"true">>

JFalse == <<"false">>

JNull == <<"null">>

(* a dump that writes absent comments as an empty string instead of null *)
dump_task_blank_comments(t) ==
    << <<"title", JStr(t.title)>>,
       <<"category", JStr(t.category)>>,
       <<"priority", JStr(t.priority)>>,
       <<"due_date", JStr(t.due_date)>>,
       <<"completed", IF t.completed THEN JTrue ELSE JFalse>>,
       <<"comments", IF t.comments = None THEN JStr(<<>>) ELSE JStr(t.comments)>> >>

(* json.dump of one task dict: the members in the dict's key order *)
dump_task(t) ==
    << <<"title", JStr(t.title)>>,
       <<"category", JStr(t.category)>>,
       <<"priority", JStr(t.priority)>>,
       <<"due_date", JStr(t.due_date)>>,
       <<"completed", IF t.completed THEN JTrue ELSE JFalse>>,
       <<"comments", IF t.comments = None THEN JNull ELSE JStr(t.comments)>> >>

RECURSIVE json_dump(_)
json_dump(ts) ==
    IF ts = <<>> THEN <<>> ELSE <<dump_task(Head(ts))>> \o json_dump(Tail(ts))

json_value(v) ==
    IF v[1] = "str" THEN v[2]
    ELSE IF v[1] = "true" THEN TRUE
    ELSE IF v[1] = "false" THEN FALSE
    ELSE None

member(obj, key) ==
    json_value(obj[CHOOSE i \in 1..Len(obj) : obj[i][1] = key][2])

load_object(obj) ==
    [title |-> member(obj, "title"), category |-> member(obj, "category"),
     priority |-> member(obj, "priority"), due_date |-> member(obj, "due_date"),
     completed |-> member(obj, "completed"), comments |-> member(obj, "comments")]

RECURSIVE json_load(_)
json_load(doc) ==
    IF doc = <<>> THEN <<>> ELSE <<load_object(Head(doc))>> \o json_load(Tail(doc))

(* the tasks file: absent, unreadable (no read permission), or a text that *)
(* is empty, is not JSON ("garbage"), or is a JSON array of task objects   *)
File(kind, doc) == [kind |-> kind, doc |-> doc]

(* load_tasks: exc is the exception that leaves the function, "" if none *)
load_tasks(f) ==
    IF f.kind = "absent" THEN [exc |-> "", value |-> <<>>]
    ELSE IF f.kind = "unreadable" THEN [exc |-> "PermissionError", value |-> <<>>]
    ELSE IF f.kind \in {"empty", "garbage"} THEN [exc |-> "", value |-> <<>>]
    ELSE [exc |-> "", value |-> json_load(f.doc)]

save_tasks(ts) == File("json", json_dump(ts))

(* ------------------------------ operations ----------------------------- *)

Result(ts, saved, out) == [tasks |-> ts, saved |-> saved, out |-> out]

(* a lookup that compares titles without lower-casing them *)
find_task_case_sensitive(ts, title) ==
    IF \E i \in 1..Len(ts) : ts[i].title = title
    THEN CHOOSE i \in 1..Len(ts) :
            /\ ts[i].title = title
            /\ \A j \in 1..(i - 1) : ts[j].title # title
    ELSE 0

(* a lookup that keeps scanning and ends on the last matching task *)
find_task_last_match(ts, title) ==
    IF \E i \in 1..Len(ts) : str_lower(ts[i].title) = str_lower(title)
    THEN CHOOSE i \in 1..Len(ts) :
            /\ str_lower(ts[i].title) = str_lower(title)
            /\ \A j \in (i + 1)..Len(ts) : str_lower(ts[j].title) # str_lower(title)
    ELSE 0

(* for task in tasks: if task["title"].lower() == title.lower() *)
find_task(ts, title) ==
    IF \E i \in 1..Len(ts) : str_lower(ts[i].title) = str_lower(title)
    THEN CHOOSE i \in 1..Len(ts) :
            /\ str_lower(ts[i].title) = str_lower(title)
            /\ \A j \in 1..(i - 1) : str_lower(ts[j].title) # str_lower(title)
    ELSE 0

(* list.remove(x): drops the first element equal to x *)
list_remove(ts, x) ==
    LET k == CHOOSE i \in 1..Len(ts) : ts[i] = x /\ \A j \in 1..(i - 1) : ts[j] # x
    IN  SubSeq(ts, 1, k - 1) \o SubSeq(ts, k + 1, Len(ts))

add_task(ts, inp, nw) ==
    LET title    == str_strip(inp.title)
        category == str_strip(inp.category)
        priority == str_capitalize(str_strip(inp.priority))
        due_date == str_strip(inp.due_date)
        additional_comments == str_strip(inp.comments)
        task == Task(title, category, priority, due_date, FALSE,
                     IF Truthy(additional_comments) THEN additional_comments ELSE None)
    IN  IF ~validate_priority(priority) THEN Result(ts, FALSE, "invalid_priority")
        ELSE IF ~validate_due_date(due_date, nw) THEN Result(ts, FALSE, "invalid_date")
        ELSE Result(Append(ts, task), TRUE, "added")

(* a remove that falls through to the last task when the title is missing *)
remove_task_falls_through(ts, inp) ==
    LET i == find_task(ts, str_strip(inp))
    IN  IF i = 0
        THEN (IF ts = <<>> THEN Result(ts, FALSE, "not_found")
              ELSE Result(SubSeq(ts, 1, Len(ts) - 1), TRUE, "removed"))
        ELSE Result(list_remove(ts, ts[i]), TRUE, "removed")

remove_task(ts, inp) ==
    LET i == find_task(ts, str_strip(inp))
    IN  IF i = 0 THEN Result(ts, FALSE, "not_found")
        ELSE Result(list_remove(ts, ts[i]), TRUE, "removed")

RECURSIVE keep_uncompleted(_)
keep_uncompleted(ts) ==
    IF ts = <<>> THEN <<>>
    ELSE IF ~Head(ts).completed THEN <<Head(ts)>> \o keep_uncompleted(Tail(ts))
    ELSE keep_uncompleted(Tail(ts))

(* a remove-completed that saves whether or not anything was removed *)
remove_completed_tasks_always_saves(ts) ==
    LET kept == keep_uncompleted(ts)
    IN  Result(kept, TRUE, IF Len(kept) < Len(ts) THEN "removed" ELSE "nothing")

remove_completed_tasks(ts) ==
    LET initial_count == Len(ts)
        kept == keep_uncompleted(ts)
    IN  IF Len(kept) < initial_count THEN Result(kept, TRUE, "removed")
        ELSE Result(kept, FALSE, "nothing")

Yes == <<"y","e","s">>

remove_all_tasks(ts, inp) ==
    LET confirm == str_lower(str_strip(inp))
    IN  IF confirm = Yes THEN Result(<<>>, TRUE, "removed")
        ELSE Result(ts, FALSE, "cancelled")

(* Python's "a or b" *)
Or(a, b) == IF Truthy(a) THEN a ELSE b

(* an edit that stores the new title and category before it validates *)
edit_task_eager(ts, inp, nw) ==
    LET i == find_task(ts, str_strip(inp.title))
        task == ts[i]
        new_title    == Or(str_strip(inp.new_title), task.title)
        new_category == Or(str_strip(inp.new_category), task.category)
        new_priority == Or(str_capitalize(str_strip(inp.new_priority)), task.priority)
        new_due_date == Or(str_strip(inp.new_due_date), task.due_date)
        new_comments == str_strip(inp.new_comments)
        comments     == IF Truthy(new_comments) THEN new_comments ELSE task.comments
        early        == [ts EXCEPT ![i].title = new_title, ![i].category = new_category]
    IN  IF i = 0 THEN Result(ts, FALSE, "not_found")
        ELSE IF Truthy(new_priority) /\ ~validate_priority(new_priority)
             THEN Result(early, FALSE, "invalid_priority")
        ELSE IF Truthy(new_due_date) /\ ~validate_due_date(new_due_date, nw)
             THEN Result(early, FALSE, "invalid_date")
        ELSE Result([ts EXCEPT ![i] = Task(new_title, new_category, new_priority,
                                           new_due_date, task.completed, comments)],
                    TRUE, "updated")

(* an edit that rebuilds the task as a new, uncompleted one *)
edit_task_resets_completed(ts, inp, nw) ==
    LET i == find_task(ts, str_strip(inp.title))
        task == ts[i]
        new_title    == Or(str_strip(inp.new_title), task.title)
        new_category == Or(str_strip(inp.new_category), task.category)
        new_priority == Or(str_capitalize(str_strip(inp.new_priority)), task.priority)
        new_due_date == Or(str_strip(inp.new_due_date), task.due_date)
        new_comments == str_strip(inp.new_comments)
        comments     == IF Truthy(new_comments) THEN new_comments ELSE task.comments
    IN  IF i = 0 THEN Result(ts, FALSE, "not_found")
        ELSE IF Truthy(new_priority) /\ ~validate_priority(new_priority)
             THEN Result(ts, FALSE, "invalid_priority")
        ELSE IF Truthy(new_due_date) /\ ~validate_due_date(new_due_date, nw)
             THEN Result(ts, FALSE, "invalid_date")
        ELSE Result([ts EXCEPT ![i] = Task(new_title, new_category, new_priority,
                                           new_due_date, FALSE, comments)],
                    TRUE, "updated")

edit_task(ts, inp, nw) ==
    LET i == find_task(ts, str_strip(inp.title))
        task == ts[i]
        new_title    == Or(str_strip(inp.new_title), task.title)
        new_category == Or(str_strip(inp.new_category), task.category)
        new_priority == Or(str_capitalize(str_strip(inp.new_priority)), task.priority)
        new_due_date == Or(str_strip(inp.new_due_date), task.due_date)
        new_comments == str_strip(inp.new_comments)
        comments     == IF Truthy(new_comments) THEN new_comments ELSE task.comments
    IN  IF i = 0 THEN Result(ts, FALSE, "not_found")
        ELSE IF Truthy(new_priority) /\ ~validate_priority(new_priority)
             THEN Result(ts, FALSE, "invalid_priority")
        ELSE IF Truthy(new_due_date) /\ ~validate_due_date(new_due_date, nw)
             THEN Result(ts, FALSE, "invalid_date")
        ELSE Result([ts EXCEPT ![i] = Task(new_title, new_category, new_priority,
                                           new_due_date, task.completed, comments)],
                    TRUE, "updated")

mark_task_complete(ts, inp) ==
    LET i == find_task(ts, str_strip(inp))
    IN  IF i = 0 THEN Result(ts, FALSE, "not_found")
        ELSE Result([ts EXCEPT ![i].completed = TRUE], TRUE, "completed")

(* ------------------------------- listings ------------------------------ *)

Line(t) ==
    [title |-> t.title, priority |-> t.priority, category |-> t.category,
     due_date |-> t.due_date, status |-> IF t.completed THEN "Done" ELSE "Pending"]

RECURSIVE print_tasks(_)
print_tasks(ts) ==
    IF ts = <<>> THEN <<>> ELSE <<Line(Head(ts))>> \o print_tasks(Tail(ts))

(* list_tasks: the lines printed; filter_by is accepted and never read *)
list_tasks(ts, filter_by) ==
    IF ts = <<>> THEN <<>> ELSE print_tasks(ts)

(* sorted(tasks, key=lambda t: t["category"].lower()): stable insertion *)
RECURSIVE insert_by_category(_, _)
insert_by_category(sorted, t) ==
    IF sorted = <<>> THEN <<t>>
    ELSE IF str_less(str_lower(t.category), str_lower(sorted[Len(sorted)].category))
         THEN Append(insert_by_category(SubSeq(sorted, 1, Len(sorted) - 1), t),
                     sorted[Len(sorted)])
    ELSE Append(sorted, t)

RECURSIVE sorted_by_category(_)
sorted_by_category(ts) ==
    IF ts = <<>> THEN <<>>
    ELSE insert_by_category(sorted_by_category(SubSeq(ts, 1, Len(ts) - 1)), ts[Len(ts)])

sort_tasks_by_category(ts) ==
    IF ts = <<>> THEN <<>> ELSE print_tasks(sorted_by_category(ts))

(* view_task_comments: what is printed for the first match *)
view_task_comments(ts, inp) ==
    LET i == find_task(ts, str_strip(inp))
    IN  IF i = 0 THEN <<>>
        ELSE <<[title |-> ts[i].title,
                comments |-> IF Truthy(ts[i].comments) THEN ts[i].comments ELSE None]>>

(* -------------------------------- inputs ------------------------------- *)

Yesterday == <<"2","9","-","1","1","-","2","0","2","6">>

Today == <<"3","0","-","1","1","-","2","0","2","6">>

Tomorrow == <<"0","1","-","1","2","-","2","0","2","6">>

IsoDate == <<"2","0","2","6","-","1","2","-","0","1">>

NoSuchDay == <<"3","1","-","1","1","-","2","0","2","6">>

StartOfToday == <<2026, 11, 30, 0>>

AddInput(t, c, p, d, k) ==
    [title |-> t, category |-> c, priority |-> p, due_date |-> d, comments |-> k]

AddInputs ==
    { AddInput(<<" ","a">>, <<"w">>, <<"h","i","g","h">>, <<" ">> \o Tomorrow, <<>>),
      AddInput(<<"A">>, <<"h"," ">>, <<" ","L","o","w">>, Today, <<"c">>),
      AddInput(<<>>, <<"w">>, <<"M","E","D","I","U","M">>, Tomorrow, <<" ">>),
      AddInput(<<"a">>, <<"w">>, <<"u","r","g","e","n","t">>, Tomorrow, <<>>),
      AddInput(<<"a">>, <<"w">>, <<>>, Tomorrow, <<>>),
      AddInput(<<"a">>, <<"w">>, <<"l","o","w">>, Yesterday, <<>>),
      AddInput(<<"a">>, <<"w">>, <<"l","o","w">>, IsoDate, <<>>),
      AddInput(<<"a">>, <<"w">>, <<"l","o","w">>, NoSuchDay, <<>>),
      AddInput(<<"a">>, <<"w">>, <<"l","o","w">>, <<>>, <<>>) }

TitleInputs == { <<" ","A">>, <<"b">>, <<>> }

Patch(t, c, p, d, k) ==
    [new_title |-> t, new_category |-> c, new_priority |-> p,
     new_due_date |-> d, new_comments |-> k]

Patches ==
    { Patch(<<>>, <<>>, <<>>, <<>>, <<>>),
      Patch(<<"A">>, <<"h">>, <<>>, <<" ">>, <<"c">>),
      Patch(<<"A">>, <<"h">>, <<"l","o","w">>, Tomorrow, <<"c">>),
      Patch(<<"a">>, <<"w">>, <<"u","r","g","e","n","t">>, <<>>, <<"c">>),
      Patch(<<"A">>, <<"h">>, <<"h","i","g","h">>, Yesterday, <<"c">>),
      Patch(<<"A">>, <<"h">>, <<>>, IsoDate, <<"c">>) }

EditInput(t, p) ==
    [title |-> t, new_title |-> p.new_title, new_category |-> p.new_category,
     new_priority |-> p.new_priority, new_due_date |-> p.new_due_date,
     new_comments |-> p.new_comments]

EditTitleInputs == { <<" ","A">>, <<>> }

EditInputs == { EditInput(t, p) : t \in EditTitleInputs, p \in Patches }

ConfirmInputs == { <<" ","Y","e","s">>, <<"n","o">>, <<>> }

Filters == { "None", "incomplete", "complete", "priority", "due_date" }

OldTask == Task(<<"A">>, <<"h">>, Low, Yesterday, TRUE, None)

InitialFiles ==
    { File("absent", <<>>), File("unreadable", <<>>), File("empty", <<>>),
      File("garbage", <<>>), File("json", <<>>), File("json", json_dump(<<OldTask>>)) }

(* ----------------------------- state machine --------------------------- *)

Last(op, arg, out, saved) == [op |-> op, arg |-> arg, out |-> out, saved |-> saved]

Init ==
    /\ file \in InitialFiles
    /\ tasks = <<>>
    /\ now = StartOfToday
    /\ pc = "start"
    /\ last = Last("none", "", "", FALSE)
    /\ shown = <<>>

(* main: tasks = load_tasks() *)
Load ==
    /\ pc = "start"
    /\ LET r == load_tasks(file)
       IN  /\ pc' = IF r.exc = "" THEN "menu" ELSE "crashed"
           /\ tasks' = r.value
           /\ last' = Last("load", "", r.exc, FALSE)
    /\ shown' = <<>>
    /\ UNCHANGED <<file, now>>

(* a mutating operation: its effect on the list and its call of save_tasks *)
Apply(op, r) ==
    /\ Len(r.tasks) <= MaxTasks
    /\ tasks' = r.tasks
    /\ file' = IF r.saved THEN save_tasks(r.tasks) ELSE file
    /\ last' = Last(op, "", r.out, r.saved)
    /\ shown' = <<>>
    /\ UNCHANGED <<now, pc>>

(* a listing: prints, touches neither the list nor the file *)
Show(op, arg, lines) ==
    /\ shown' = lines
    /\ last' = Last(op, arg, "", FALSE)
    /\ UNCHANGED <<file, tasks, now, pc>>

AddTaskWith(inp) == pc = "menu" /\ Apply("add", add_task(tasks, inp, now))

AddTask ==
    /\ pc = "menu"
    /\ \E inp \in AddInputs : AddTaskWith(inp)

RemoveTaskWith(inp) == pc = "menu" /\ Apply("remove", remove_task(tasks, inp))

RemoveTask ==
    /\ pc = "menu"
    /\ \E inp \in TitleInputs : RemoveTaskWith(inp)

RemoveAllTasks ==
    /\ pc = "menu"
    /\ \E inp \in ConfirmInputs : Apply("remove_all", remove_all_tasks(tasks, inp))

EditTaskWith(inp) == pc = "menu" /\ Apply("edit", edit_task(tasks, inp, now))

EditTask ==
    /\ pc = "menu"
    /\ \E inp \in EditInputs : EditTaskWith(inp)

MarkTaskCompleteWith(inp) ==
    pc = "menu" /\ Apply("mark_complete", mark_task_complete(tasks, inp))

MarkTaskComplete ==
    /\ pc = "menu"
    /\ \E inp \in TitleInputs : MarkTaskCompleteWith(inp)

RemoveCompletedTasks ==
    /\ pc = "menu"
    /\ Apply("remove_completed", remove_completed_tasks(tasks))

ListTasks ==
    /\ pc = "menu"
    /\ \E f \in Filters : Show("list", f, list_tasks(tasks, f))

SortTasksByCategory ==
    /\ pc = "menu"
    /\ Show("sort_category", "", sort_tasks_by_category(tasks))

ViewTaskComments ==
    /\ pc = "menu"
    /\ \E inp \in TitleInputs : Show("view_comments", "", view_task_comments(tasks, inp))

(* choice "0": the loop ends and the process exits *)
Exit ==
    /\ pc = "menu"
    /\ pc' = "exited"
    /\ last' = Last("exit", "", "", FALSE)
    /\ shown' = <<>>
    /\ UNCHANGED <<file, tasks, now>>

(* the script is started again *)
Restart ==
    /\ pc = "exited"
    /\ pc' = "start"
    /\ tasks' = <<>>
    /\ last' = Last("none", "", "", FALSE)
    /\ shown' = <<>>
    /\ UNCHANGED <<file, now>>

(* the wall clock moves on within the day, from midnight to a later time *)
Tick ==
    /\ now = StartOfToday
    /\ now' = [now EXCEPT ![4] = now[4] + 1]
    /\ UNCHANGED <<file, tasks, pc, last, shown>>

Next ==
    \/ Load
    \/ AddTask
    \/ RemoveTask
    \/ RemoveAllTasks
    \/ EditTask
    \/ MarkTaskComplete
    \/ RemoveCompletedTasks
    \/ ListTasks
    \/ SortTasksByCategory
    \/ ViewTaskComments
    \/ Exit
    \/ Restart
    \/ Tick

Spec == Init /\ [][Next]_vars

(* ------------------------- vocabulary of the claims -------------------- *)

Priorities == {Low, Medium, High}

RECURSIVE str_upper(_)
str_upper(s) ==
    IF s = <<>> THEN <<>> ELSE <<upper_char(Head(s))>> \o str_upper(Tail(s))

CasingVariants(s) == {s, str_lower(s), str_upper(s), str_capitalize(s)}

(* calendar dates <<year, month, day>> and their order *)
DateOf(dt) == <<dt[1], dt[2], dt[3]>>

DateBefore(a, b) ==
    \/ a[1] < b[1]
    \/ a[1] = b[1] /\ a[2] < b[2]
    \/ a[1] = b[1] /\ a[2] = b[2] /\ a[3] < b[3]

Parses(s) == strptime(s).ok

IsPastDate(s, nw) == Parses(s) /\ DateBefore(DateOf(strptime(s).dt), DateOf(nw))

AcceptableDueDate(s, nw) == Parses(s) /\ ~IsPastDate(s, nw)

DueDateInputs ==
    {str_strip(i.due_date) : i \in AddInputs} \cup {str_strip(p.new_due_date) : p \in Patches}

(* the task that add_task is asked to create from the raw input *)
Submitted(inp) ==
    Task(str_strip(inp.title), str_strip(inp.category),
         str_capitalize(str_strip(inp.priority)), str_strip(inp.due_date), FALSE,
         IF str_strip(inp.comments) = <<>> THEN None ELSE str_strip(inp.comments))

NotCompleted(t) == ~t.completed

IsCompleted(t) == t.completed

Matches(t, q) == str_lower(t.title) = str_lower(str_strip(q))

NoMatch(ts, q) == \A i \in 1..Len(ts) : ~Matches(ts[i], q)

(* -------------------------------- claims ------------------------------- *)

(* C1: write-through durability. Whenever the menu is waiting for a choice *)
(* (and after exit), reading the tasks file with load_tasks raises nothing *)
(* and returns exactly the in-memory list: same tasks, same fields, same   *)
(* order.                                                                  *)
C1_WriteThrough ==
    pc \in {"menu", "exited"} =>
        /\ load_tasks(file).exc = ""
        /\ load_tasks(file).value = tasks

(* C1 witness: a save has just written a list of two tasks, one completed  *)
(* and one without comments.                                               *)
C1_Witness ==
    /\ pc = "menu"
    /\ last.saved
    /\ Len(tasks) = 2
    /\ tasks[1].completed
    /\ tasks[2].comments = None
    /\ tasks[1].comments # None

(* C2: add_task is a no-op without a save when the capitalized priority is *)
(* not Low, Medium or High, or the due date does not parse or is a date    *)
(* before today; otherwise it appends exactly the submitted task with      *)
(* completed = FALSE at the end and saves.                                 *)
C2_AddNoOpOrAppend ==
    [][\A inp \in AddInputs :
         (last'.op = "add" /\ AddTaskWith(inp)) =>
            LET t == Submitted(inp)
                rejected == \/ t.priority \notin Priorities
                            \/ ~Parses(t.due_date)
                            \/ IsPastDate(t.due_date, now)
            IN  IF rejected
                THEN tasks' = tasks /\ ~last'.saved /\ file' = file
                ELSE /\ tasks' = Append(tasks, t)
                     /\ last'.saved
                     /\ file' = File("json", json_dump(tasks'))]_vars

(* C3: validate_due_date accepts a value exactly when it parses as         *)
(* DD-MM-YYYY and its calendar date is not before today's date, at every   *)
(* time of day.                                                            *)
C3_DueDateRule ==
    \A d \in DueDateInputs : validate_due_date(d, now) <=> AcceptableDueDate(d, now)

(* C4 as stated: after a successful add_task, looking up any casing        *)
(* variant of the submitted title selects the task just submitted, also    *)
(* when the list already held a task with that title.                      *)
C4_LookupFindsAdded ==
    [][\A inp \in AddInputs :
         (last'.op = "add" /\ last'.out = "added" /\ AddTaskWith(inp)) =>
            \A q \in CasingVariants(str_strip(inp.title)) :
                LET i == find_task(tasks', q)
                IN  i # 0 /\ tasks'[i] = Submitted(inp)]_vars

(* C4 amended: after a successful add_task on a list in which no task      *)
(* matches the new title case-insensitively, looking up any casing variant *)
(* of the submitted title selects the task just submitted, completed FALSE.*)
C4_LookupFindsAddedIfUnique ==
    [][\A inp \in AddInputs :
         (last'.op = "add" /\ last'.out = "added" /\ NoMatch(tasks, inp.title)
            /\ AddTaskWith(inp)) =>
            \A q \in CasingVariants(str_strip(inp.title)) :
                LET i == find_task(tasks', q)
                IN  i # 0 /\ tasks'[i] = Submitted(inp)]_vars

(* C4 witness: a task was just added behind a task with a different title. *)
C4_Witness ==
    /\ last.op = "add"
    /\ last.out = "added"
    /\ Len(tasks) = 2
    /\ str_lower(tasks[1].title) # str_lower(tasks[2].title)
    /\ tasks[2].title = <<"a">>

(* the tasks of ts with priority p, in list order *)
RECURSIVE WithPriority(_, _)
WithPriority(ts, p) ==
    IF ts = <<>> THEN <<>>
    ELSE (IF Head(ts).priority = p THEN <<Head(ts)>> ELSE <<>>) \o WithPriority(Tail(ts), p)

(* stable order, descending by rank High > Medium > Low *)
ByPriorityRank(ts) ==
    WithPriority(ts, High) \o WithPriority(ts, Medium) \o WithPriority(ts, Low)

(* C5: "Sort by Priority" prints the tasks High first, then Medium, then   *)
(* Low, tasks of equal priority in list order.                             *)
C5_SortByPriority ==
    (last.op = "list" /\ last.arg = "priority") =>
        shown = print_tasks(ByPriorityRank(tasks))

(* C6: "List Pending Tasks" prints all and only the tasks with completed   *)
(* FALSE and "List Completed Tasks" all and only those with completed      *)
(* TRUE, in list order.                                                    *)
C6_CompletionFilter ==
    /\ (last.op = "list" /\ last.arg = "incomplete") =>
            shown = print_tasks(SelectSeq(tasks, NotCompleted))
    /\ (last.op = "list" /\ last.arg = "complete") =>
            shown = print_tasks(SelectSeq(tasks, IsCompleted))

(* C7: remove_completed_tasks leaves exactly the tasks with completed      *)
(* FALSE, in their order; it writes the file if and only if the list got   *)
(* shorter; directly after a remove_completed_tasks it removes nothing and *)
(* writes nothing.                                                         *)
C7_RemoveCompleted ==
    [][(last'.op = "remove_completed" /\ RemoveCompletedTasks) =>
          /\ tasks' = SelectSeq(tasks, NotCompleted)
          /\ last'.saved <=> (\E i \in 1..Len(tasks) : tasks[i].completed)
          /\ file' = IF \E i \in 1..Len(tasks) : tasks[i].completed
                     THEN File("json", json_dump(tasks')) ELSE file
          /\ last.op = "remove_completed" =>
                (tasks' = tasks /\ ~last'.saved /\ file' = file)]_vars

(* C7 witness: remove_completed_tasks has just dropped a task, kept        *)
(* another and saved.                                                      *)
C7_Witness ==
    /\ last.op = "remove_completed"
    /\ last.out = "removed"
    /\ last.saved
    /\ Len(tasks) = 1

(* C8: when the new priority or the new due date given to edit_task fails  *)
(* validation, no task changes in any field, the list keeps its order, and *)
(* nothing is written, also when a new title and category were given: a    *)
(* step that changes the list or the file, or saves, is not such an edit.  *)
C8_EditAbortsAtomically ==
    [][(last'.op = "edit" /\ ~(tasks' = tasks /\ file' = file /\ ~last'.saved)) =>
          \A inp \in EditInputs :
             LET np == str_capitalize(str_strip(inp.new_priority))
                 nd == str_strip(inp.new_due_date)
                 fails == \/ np # <<>> /\ np \notin Priorities
                          \/ nd # <<>> /\ ~validate_due_date(nd, now)
             IN  (~NoMatch(tasks, inp.title) /\ fails) => ~EditTaskWith(inp)]_vars

(* C8 witness: an edit with a new title and category was just rejected for *)
(* its priority or its due date, on a list of two tasks.                   *)
C8_Witness ==
    /\ last.op = "edit"
    /\ last.out \in {"invalid_priority", "invalid_date"}
    /\ Len(tasks) = 2

(* C9: remove_task, edit_task and mark_task_complete on a title that no    *)
(* task matches case-insensitively leave the list and the file unchanged   *)
(* and write nothing: a step that changes the list or the file, or saves,  *)
(* is not one of these operations on an unmatched title.                   *)
C9_NotFoundIsNoOp ==
    [][~(tasks' = tasks /\ file' = file /\ ~last'.saved) =>
          /\ \A q \in TitleInputs :
                (last'.op = "remove" /\ NoMatch(tasks, q)) => ~RemoveTaskWith(q)
          /\ \A q \in TitleInputs :
                (last'.op = "mark_complete" /\ NoMatch(tasks, q)) => ~MarkTaskCompleteWith(q)
          /\ \A inp \in EditInputs :
                (last'.op = "edit" /\ NoMatch(tasks, inp.title)) => ~EditTaskWith(inp)]_vars

(* C9 witness: a title-keyed operation has just missed on a list that      *)
(* holds tasks.                                                            *)
C9_Witness ==
    /\ last.op \in {"remove", "edit", "mark_complete"}
    /\ last.out = "not_found"
    /\ Len(tasks) = 2

(* C10: load_tasks never raises, whatever the state of the tasks file, and *)
(* returns the empty list when the file is absent or is not JSON.          *)
C10_LoadNeverRaises ==
    /\ pc # "crashed"
    /\ last.op = "load" =>
          /\ last.out = ""
          /\ file.kind \in {"absent", "empty", "garbage"} => tasks = <<>>

(* C11: every task in the in-memory list and every task stored in the file *)
(* has priority Low, Medium or High, after any sequence of operations      *)
(* started from a file whose tasks have such priorities.                   *)
C11_PrioritiesValid ==
    /\ \A i \in 1..Len(tasks) : tasks[i].priority \in Priorities
    /\ file.kind = "json" =>
          \A i \in 1..Len(file.doc) : member(file.doc[i], "priority") \in Priorities

(* C11 witness: an edit that supplied a new priority has just been saved  *)
(* on a list of two tasks with different priorities.                       *)
C11_Witness ==
    /\ last.op = "edit"
    /\ last.out = "updated"
    /\ Len(tasks) = 2
    /\ tasks[1].priority = Low
    /\ tasks[2].priority = High
    /\ file = File("json", json_dump(tasks))

(* C12: every task in the list has a non-empty title, whatever the user    *)
(* types into add_task and edit_task, blank input included.                *)
C12_TitlesNonEmpty ==
    \A i \in 1..Len(tasks) : tasks[i].title # <<>>

(* the lowest position whose task matches the query title *)
FirstMatch(ts, q) ==
    CHOOSE i \in 1..Len(ts) : Matches(ts[i], q) /\ \A j \in 1..(i - 1) : ~Matches(ts[j], q)

Blank(s) == str_strip(s) = <<>>

(* the task after an edit that supplies no priority and no due date *)
Patched(t, inp) ==
    [t EXCEPT !.title = IF Blank(inp.new_title) THEN @ ELSE str_strip(inp.new_title),
              !.category = IF Blank(inp.new_category) THEN @ ELSE str_strip(inp.new_category),
              !.comments = IF Blank(inp.new_comments) THEN @ ELSE str_strip(inp.new_comments)]

(* C13: an edit_task whose priority and due-date inputs are blank is never *)
(* rejected by validation: on a matching title it applies the supplied     *)
(* title, category and comments and saves, whatever the stored due date.   *)
C13_BlankFieldsNotValidated ==
    [][last'.op = "edit" =>
          \A inp \in EditInputs :
             (/\ Blank(inp.new_priority)
              /\ Blank(inp.new_due_date)
              /\ ~NoMatch(tasks, inp.title)
              /\ EditTaskWith(inp)) =>
                LET i == FirstMatch(tasks, inp.title)
                IN  /\ last'.out = "updated"
                    /\ last'.saved
                    /\ tasks' = [tasks EXCEPT ![i] = Patched(tasks[i], inp)]
                    /\ file' = File("json", json_dump(tasks'))]_vars

(* ts without its element at position i *)
RemoveAt(ts, i) == SubSeq(ts, 1, i - 1) \o SubSeq(ts, i + 1, Len(ts))

(* ts2 is ts1 except possibly at position i *)
SameExceptAt(ts1, ts2, i) ==
    /\ Len(ts2) = Len(ts1)
    /\ \A j \in 1..Len(ts1) : j # i => ts2[j] = ts1[j]

(* C14: first match wins. A successful remove_task removes exactly the     *)
(* lowest-position task matching the title and leaves all others, other    *)
(* matches and identical tasks included, unchanged and in order; a         *)
(* successful mark_task_complete or edit_task changes only that task.      *)
C14_FirstMatchWins ==
    [][/\ (last'.op = "remove" /\ last'.out = "removed") =>
            \A q \in TitleInputs :
                (~NoMatch(tasks, q) /\ RemoveTaskWith(q)) =>
                    tasks' = RemoveAt(tasks, FirstMatch(tasks, q))
       /\ (last'.op = "mark_complete" /\ last'.out = "completed") =>
            \A q \in TitleInputs :
                (~NoMatch(tasks, q) /\ MarkTaskCompleteWith(q)) =>
                    tasks' = [tasks EXCEPT ![FirstMatch(tasks, q)].completed = TRUE]
       /\ (last'.op = "edit" /\ last'.out = "updated") =>
            \A inp \in EditInputs :
                NoMatch(tasks, inp.title)
                \/ SameExceptAt(tasks, tasks', FirstMatch(tasks, inp.title))
                \/ ~EditTaskWith(inp)]_vars

(* C14 witness: of two tasks whose titles are equal case-insensitively,    *)
(* mark_task_complete has just completed the first and not the second.     *)
C14_Witness ==
    /\ last.op = "mark_complete"
    /\ last.out = "completed"
    /\ Len(tasks) = 2
    /\ str_lower(tasks[1].title) = str_lower(tasks[2].title)
    /\ tasks[1].completed
    /\ ~tasks[2].completed

(* a is b with some elements left out *)
RECURSIVE IsSubsequence(_, _)
IsSubsequence(a, b) ==
    IF a = <<>> THEN TRUE
    ELSE IF b = <<>> THEN FALSE
    ELSE IF Head(a) = Head(b) THEN IsSubsequence(Tail(a), Tail(b))
    ELSE IsSubsequence(a, Tail(b))

(* C15: in every step of the menu loop, completed never goes from TRUE to  *)
(* FALSE; it goes from FALSE to TRUE only in a mark_task_complete step on  *)
(* a title the task matches; a new task starts uncompleted; the tasks left *)
(* by a removal are unchanged; and mark_task_complete on a task that is    *)
(* already completed succeeds and leaves it completed.                     *)
C15_CompletedMonotone ==
    [][(pc = "menu" /\ pc' = "menu") =>
          /\ Len(tasks') = Len(tasks) =>
                \A i \in 1..Len(tasks) :
                    /\ tasks[i].completed => tasks'[i].completed
                    /\ (~tasks[i].completed /\ tasks'[i].completed) =>
                          /\ last'.op = "mark_complete"
                          /\ \E q \in TitleInputs :
                                Matches(tasks[i], q) /\ MarkTaskCompleteWith(q)
          /\ Len(tasks') > Len(tasks) =>
                /\ SubSeq(tasks', 1, Len(tasks)) = tasks
                /\ Len(tasks') = Len(tasks) + 1
                /\ ~tasks'[Len(tasks')].completed
          /\ Len(tasks') < Len(tasks) => IsSubsequence(tasks', tasks)
          /\ last'.op = "mark_complete" =>
                \A q \in TitleInputs :
                    (/\ ~NoMatch(tasks, q)
                     /\ tasks[FirstMatch(tasks, q)].completed
                     /\ MarkTaskCompleteWith(q)) =>
                        (last'.out = "completed" /\ tasks' = tasks)]_vars

(* C15 witness: mark_task_complete has just succeeded on a list in which   *)
(* both tasks, of different titles, are completed.                         *)
C15_Witness ==
    /\ last.op = "mark_complete"
    /\ last.out = "completed"
    /\ Len(tasks) = 2
    /\ str_lower(tasks[1].title) # str_lower(tasks[2].title)
    /\ tasks[1].completed
    /\ tasks[2].completed

====
